---- MODULE Spec2Model ----
(***************************************************************************)
(* A model of supermark's page pipeline: Core.cast / Core._cast_chunk,     *)
(* the two normalisation passes Core.arrange_assides and                   *)
(* Core.group_chunks, and the draft/skip logic of                           *)
(* HTMLBuilder._transform_page_to_html.                                     *)
(*                                                                         *)
(* A page is a sequence of raw chunks.  A chunk (node) is identified by    *)
(* the position of the raw chunk it was cast from.  The page-variable      *)
(* dictionary of a page is one shared object: every chunk holds a          *)
(* reference to it (field pv), so a chunk's view is the dictionary's       *)
(* current content.                                                        *)
(***************************************************************************)
EXTENDS Integers, Sequences, FiniteSets, TLC

\* ----------------------------------------------------------------- bounds
MaxSegs == 3        \* raw chunks of the page built by Spec
NumPages == 2       \* page jobs of SpecPages
MaxPageSegs == 2    \* raw chunks per page in SpecPages

Pages == 1..NumPages

None == "None"
Absent == "absent"

\* ------------------------------------------------------ raw chunks (input)
\* The YAML text of a raw chunk is represented by what yaml.safe_load does
\* with it: it returns a mapping ("dict"), returns something that is not a
\* mapping ("other"), raises yaml.scanner.ScannerError, or raises another
\* YAMLError (yaml.parser.ParserError, e.g. for the text "a: [1, 2").
Keys == {"type", "status", "title"}

Dict(t, s, ti) == [k \in Keys |->
                     CASE k = "type" -> t [] k = "status" -> s [] OTHER -> ti]
EmptyDict == Dict(Absent, Absent, Absent)

Raw(type, tag, load, dict) ==
    [type |-> type, tag |-> tag, load |-> load, dict |-> dict]

Prose(tag) == Raw("MARKDOWN", tag, None, EmptyDict)
Yaml(load, dict) == Raw("YAML", None, load, dict)

DataSegs ==
    { Yaml("dict", Dict(Absent, "draft", Absent)),
      Yaml("dict", Dict(Absent, Absent, "t")) }

ProseSegs == { Prose(None), Prose("aside"), Prose("hint"), Prose("bogus") }

TypedSegs ==
    { Yaml("dict", Dict("figure", Absent, "t")),
      Yaml("dict", Dict("nope", Absent, Absent)) }

BadYamlSegs ==
    { Yaml("other", EmptyDict),
      Yaml("ScannerError", EmptyDict),
      Yaml("ParserError", EmptyDict) }

OtherSegs ==
    { Raw("HTML", None, None, EmptyDict),
      Raw("CODE", None, None, EmptyDict),
      Raw("UNKNOWN", None, None, EmptyDict) }

Segments == ProseSegs \cup DataSegs \cup TypedSegs \cup BadYamlSegs \cup OtherSegs

\* The segments of the pages of SpecPages.
PageSegments == { Prose(None) } \cup DataSegs

SeqsUpTo(S, n) == UNION { [1..k -> S] : k \in 0..n }

\* ------------------------------------------------------------- registry
\* The tables the extension points hold once Core.__init__ has run.  Two
\* yaml tables: the type "figure" is served by one of two extensions,
\* depending on which was registered last.
YamlTables ==
    { [t \in {"figure"} |-> "FigureExt"],
      [t \in {"figure", "image"} |-> "GalleryExt"] }

ParagraphTable == [t \in {"hint"} |-> "HintExt"]

\* chunk_class of an extension: ChunkExtension.__init__
chunk_class(ext) ==
    CASE ext = "FigureExt" -> "Figure"
      [] ext = "GalleryExt" -> "Gallery"
      [] OTHER -> "MarkdownChunk"

VARIABLES
    raws,               \* raws[p]: the raw chunks parse() gave for page p
    yamlExtensions,     \* YamlExtensionPoint.extensions
    pc,                 \* pc[p]: where the job of page p stands
    idx,                \* idx[p]: the raw chunk cast's loop is at
    chunks,             \* chunks[p]: cast's list `chunks`
    page_variables,     \* page_variables[p]: the dictionary of cast's call
    used_extensions,    \* used_extensions[p]: _process_file's extensions_used
    report,             \* report[p]: diagnostics told about page p, in order
    main_chunks,        \* main_chunks[p]: what arrange_assides returned
    asides,             \* asides[p][i]: the list `asides` of chunk i
    new_chunks,         \* new_chunks[p]: what group_chunks returned
    content,            \* content[p]: what the renderer's loop appended
    abort_draft,        \* HTMLBuilder.abort_draft
    written,            \* written[p]: write_file wrote the target of page p
    \* one call of group_chunks, iteration by iteration
    group_in,           \* its argument `chunks`
    group_idx,          \* the position of its loop
    group_out,          \* its list new_chunks
    current_group,      \* its variable current_group (NoChunk for None)
    group_pc,           \* "loop", "returned", or "idle" when not called
    no_group_at,        \* the positions its loop reached with no group open
    \* the extension points of a Core
    extension_points,   \* the `extensions` table of each extension point
    registrations,      \* the extensions passed to the register methods, in order
    load_pc,            \* _load_extensions: "loading", "done", "raised", "idle"
    modules,            \* the directories _load_extensions finds, in order
    load_idx,           \* the directory its loop is at
    load_report,        \* what _register_module reported, in order
    \* URLChecker
    urls,               \* URLChecker.urls: reference -> set object (0: no entry)
    sets,               \* the set objects: sets[r] is the content of object r
    link_pc,            \* link_pc[w]: where look_at_chunk of worker w stands
    link_url,           \* link_url[w]: the reference worker w is recording
    link_set,           \* link_set[w]: the set object worker w has loaded
    link_done,          \* link_done[w]: the references worker w has recorded
    probe,              \* probe[u]: what requests.get(u) answers
    probes,             \* probes[u]: how often u was probed
    warnings,           \* the (chunk, reference) pairs chunk.warning was called for
    check_pc,           \* URLChecker.check: "idle", "checking", "returned", "raised"
    \* HTMLBuilder.build with a thread pool
    build_pc,           \* the main thread: "idle", "submit", "result", "exit", ...
    build_k,            \* the job the main thread is at
    \* Core.get_css and Core.get_js
    asset_used,         \* their argument used_extensions
    all_css,            \* what get_css returned: its fragments, in order
    all_js,             \* what get_js returned: its fragments, in order
    asset_pc            \* which of the two have returned

pipelineVars == << raws, yamlExtensions, pc, idx, chunks, page_variables,
                   used_extensions, report, main_chunks, asides, new_chunks,
                   content, abort_draft, written >>
groupVars == << group_in, group_idx, group_out, current_group, group_pc,
               no_group_at >>
registryVars == << extension_points, registrations, load_pc, modules, load_idx,
                  load_report >>
linkVars == << urls, sets, link_pc, link_url, link_set, link_done >>
checkVars == << probe, probes, warnings, check_pc >>
poolVars == << build_pc, build_k >>
assetVars == << asset_used, all_css, all_js, asset_pc >>

vars == << pipelineVars, groupVars, registryVars, linkVars, checkVars, poolVars,
          assetVars >>

\* The parts of the program a specification leaves out stay as they are.
notPipelineVars == << groupVars, registryVars, linkVars, checkVars, poolVars,
                      assetVars >>

\* ------------------------------------------------------------ diagnostics
\* One call of Report.tell / Report.error / RawChunk.tell: its level, the
\* object it was called on, the raw chunk it positions (0: none) and the tag
\* it names.
Diag(level, by, at, tag) == [level |-> level, by |-> by, at |-> at, tag |-> tag]

\* ----------------------------------------------------------------- chunks
\* A chunk: the raw chunk it was built from (id), its class, the extension
\* set on it, the page whose dictionary it references, and whether it
\* identifies itself as an aside.
Chunk(id, cls, ext, p, aside) ==
    [id |-> id, cls |-> cls, ext |-> ext, pv |-> p, aside |-> aside,
     kind |-> None, members |-> << >>, finished |-> 0]

NoChunk == Chunk(0, None, None, 0, FALSE)

MarkdownChunk(raw, id, p) == Chunk(id, "MarkdownChunk", None, p, raw.tag = "aside")
YAMLDataChunk(raw, id, p) == Chunk(id, "YAMLDataChunk", None, p, FALSE)
HTMLChunk(raw, id, p) == Chunk(id, "HTMLChunk", None, p, FALSE)
Code(raw, id, p) == Chunk(id, "Code", None, p, FALSE)

is_aside(chunk) == chunk.aside

\* chunk.page_variables: the dictionary the chunk refers to, among the
\* dictionaries of the pages.
page_variables_of(dicts, chunk) == dicts[chunk.pv]

View(chunk) == page_variables_of(page_variables, chunk)

KeysOf(d) == { k \in Keys : d[k] # Absent }

\* A plain assignment in place of dict.update.
update_replaces(d, other) == other

\* dict.update
update(d, other) == [k \in Keys |-> IF other[k] # Absent THEN other[k] ELSE d[k]]

\* What one call of _cast_chunk does: the chunk it returns (NoChunk for
\* None), whether it raised, the page dictionary afterwards, the diagnostics
\* it told and the extensions it added to used_extensions.
Outcome(chunk, raised, vars_after, diags, used) ==
    [chunk |-> chunk, raised |-> raised, page_variables |-> vars_after,
     diags |-> diags, used |-> used]

\* cast_paragraph_class returning None for a tag that is not registered.
cast_paragraph_class_no_fallback(raw, id, p, tag, pvars) ==
    IF tag \in DOMAIN ParagraphTable
    THEN LET extension == ParagraphTable[tag]
         IN  Outcome(Chunk(id, chunk_class(extension), extension, p, raw.tag = "aside"),
                     FALSE, pvars, << >>, {extension})
    ELSE Outcome(NoChunk, FALSE, pvars,
                 << Diag("WARNING", "raw.tell", id, tag) >>, {})

cast_paragraph_class(raw, id, p, tag, pvars) ==
    IF tag \in DOMAIN ParagraphTable
    THEN LET extension == ParagraphTable[tag]
         IN  Outcome(Chunk(id, chunk_class(extension), extension, p, raw.tag = "aside"),
                     FALSE, pvars, << >>, {extension})
    ELSE Outcome(MarkdownChunk(raw, id, p), FALSE, pvars,
                 << Diag("WARNING", "raw.tell", id, tag) >>, {})

\* cast_yaml merging the typed mapping into the page variables.
cast_yaml_merges(raw, id, p, type, extensions, pvars) ==
    IF type \in DOMAIN extensions
    THEN LET extension == extensions[type]
         IN  Outcome(Chunk(id, chunk_class(extension), extension, p, FALSE),
                     FALSE, update(pvars, [raw.dict EXCEPT !["type"] = Absent]),
                     << >>, {extension})
    ELSE Outcome(NoChunk, FALSE, pvars, << >>, {})

cast_yaml(raw, id, p, type, extensions, pvars) ==
    IF type \in DOMAIN extensions
    THEN LET extension == extensions[type]
         IN  Outcome(Chunk(id, chunk_class(extension), extension, p, FALSE),
                     FALSE, pvars, << >>, {extension})
    ELSE Outcome(NoChunk, FALSE, pvars, << >>, {})

\* Which exceptions of yaml.safe_load the try statement of _cast_chunk
\* catches.
Caught(load) == load = "ScannerError"

_cast_chunk(raw, id, p, extensions, pvars) ==
    CASE raw.type = "MARKDOWN" ->
           IF raw.tag = None \/ raw.tag = "aside"
           THEN Outcome(MarkdownChunk(raw, id, p), FALSE, pvars, << >>, {})
           ELSE cast_paragraph_class(raw, id, p, raw.tag, pvars)
      [] raw.type = "YAML" ->
           CASE raw.load = "dict" ->
                  IF raw.dict["type"] # Absent
                  THEN cast_yaml(raw, id, p, raw.dict["type"], extensions, pvars)
                  ELSE Outcome(YAMLDataChunk(raw, id, p), FALSE,
                               update(pvars, raw.dict), << >>, {})
             [] raw.load = "other" ->
                  Outcome(NoChunk, FALSE, pvars,
                          << Diag("ERROR", "raw.report", 0, None) >>, {})
             [] OTHER ->
                  IF Caught(raw.load)
                  THEN Outcome(NoChunk, FALSE, pvars,
                               << Diag("ERROR", "raw.report", 0, None) >>, {})
                  ELSE Outcome(NoChunk, TRUE, pvars, << >>, {})
      [] raw.type = "HTML" -> Outcome(HTMLChunk(raw, id, p), FALSE, pvars, << >>, {})
      [] raw.type = "CODE" -> Outcome(Code(raw, id, p), FALSE, pvars, << >>, {})
      [] OTHER -> Outcome(NoChunk, FALSE, pvars, << >>, {})

\* Chunk.add_used_extension: the chunk's extension, if it has one, is added.
add_used_extension(chunk, used) ==
    IF chunk.ext # None THEN used \cup {chunk.ext} ELSE used

\* ------------------------------------------------------------------- cast
\* The state of one call of cast: the position of its loop, its list
\* `chunks`, its dictionary page_variables, the set used_extensions, the
\* diagnostics told, and whether an exception left the call.
CastState(i, cs, pvars, used, told, raised) ==
    [idx |-> i, chunks |-> cs, page_variables |-> pvars,
     used_extensions |-> used, report |-> told, raised |-> raised]

\* cast_step with the set used_extensions left as it was.
cast_step_ignores_used(st, raw, p, extensions) ==
    LET o == _cast_chunk(raw, st.idx, p, extensions, st.page_variables)
    IN  IF o.raised
        THEN [st EXCEPT !.raised = TRUE]
        ELSE IF o.chunk = NoChunk
             THEN CastState(st.idx + 1, st.chunks, o.page_variables,
                            st.used_extensions,
                            st.report \o o.diags
                               \o << Diag("ERROR", "cast", st.idx, None) >>,
                            FALSE)
             ELSE CastState(st.idx + 1, Append(st.chunks, o.chunk), o.page_variables,
                            st.used_extensions, st.report \o o.diags, FALSE)

\* One iteration of the loop of Core.cast, for raw chunk st.idx of page p.
cast_step(st, raw, p, extensions) ==
    LET o == _cast_chunk(raw, st.idx, p, extensions, st.page_variables)
    IN  IF o.raised
        THEN [st EXCEPT !.raised = TRUE]
        ELSE IF o.chunk = NoChunk
             THEN CastState(st.idx + 1, st.chunks, o.page_variables,
                            st.used_extensions \cup o.used,
                            st.report \o o.diags
                               \o << Diag("ERROR", "cast", st.idx, None) >>,
                            FALSE)
             ELSE CastState(st.idx + 1, Append(st.chunks, o.chunk), o.page_variables,
                            add_used_extension(o.chunk, st.used_extensions \cup o.used),
                            st.report \o o.diags, FALSE)

RECURSIVE cast_loop(_, _, _, _)
cast_loop(st, rs, p, extensions) ==
    IF st.raised \/ st.idx > Len(rs) THEN st
    ELSE cast_loop(cast_step(st, rs[st.idx], p, extensions), rs, p, extensions)

\* The loop of cast, one iteration at a time.  An exception of _cast_chunk
\* leaves cast, parse_lines, parse_file and _process_file.
CastStep(p) ==
    /\ pc[p] = "cast"
    /\ idx[p] <= Len(raws[p])
    /\ LET st == cast_step(CastState(idx[p], chunks[p], page_variables[p],
                                     used_extensions[p], report[p], FALSE),
                           raws[p][idx[p]], p, yamlExtensions)
       IN  /\ pc' = [pc EXCEPT ![p] = IF st.raised THEN "raised" ELSE @]
           /\ idx' = [idx EXCEPT ![p] = st.idx]
           /\ chunks' = [chunks EXCEPT ![p] = st.chunks]
           /\ page_variables' = [page_variables EXCEPT ![p] = st.page_variables]
           /\ used_extensions' = [used_extensions EXCEPT ![p] = st.used_extensions]
           /\ report' = [report EXCEPT ![p] = st.report]
    /\ UNCHANGED << raws, yamlExtensions, main_chunks, asides, new_chunks,
                    content, abort_draft, written >>
    /\ UNCHANGED notPipelineVars

\* cast returns its list: parse_lines goes on with arrange_assides.
CastReturn(p) ==
    /\ pc[p] = "cast"
    /\ idx[p] > Len(raws[p])
    /\ pc' = [pc EXCEPT ![p] = "arrange"]
    /\ UNCHANGED << raws, yamlExtensions, idx, chunks, page_variables,
                    used_extensions, report, main_chunks, asides, new_chunks,
                    content, abort_draft, written >>
    /\ UNCHANGED notPipelineVars

\* -------------------------------------------------------- arrange_assides
\* The state of the loop of arrange_assides: the list main_chunks, the
\* variable current_main_chunk (NoChunk for None), the aside lists of the
\* chunks and the warnings told.
add_aside(as, chunk, aside) == [as EXCEPT ![chunk.id] = Append(@, aside)]

\* arrange_step with an attached aside also kept in main_chunks.
arrange_step_keeps_attached(st, chunk) ==
    IF is_aside(chunk)
    THEN IF st.current_main_chunk # NoChunk
         THEN [st EXCEPT !.asides = add_aside(@, st.current_main_chunk, chunk),
                         !.main_chunks = Append(@, chunk)]
         ELSE [st EXCEPT !.told = Append(@, Diag("WARNING", "arrange_assides", chunk.id, None)),
                         !.main_chunks = Append(@, chunk)]
    ELSE [st EXCEPT !.main_chunks = Append(@, chunk),
                    !.current_main_chunk = chunk]

\* arrange_step with an aside becoming the current main chunk.
arrange_step_aside_is_main(st, chunk) ==
    IF is_aside(chunk) /\ st.current_main_chunk # NoChunk
    THEN [st EXCEPT !.asides = add_aside(@, st.current_main_chunk, chunk)]
    ELSE [st EXCEPT !.told = IF is_aside(chunk)
                             THEN Append(@, Diag("WARNING", "arrange_assides", chunk.id, None))
                             ELSE @,
                    !.main_chunks = Append(@, chunk),
                    !.current_main_chunk = chunk]

\* arrange_step with the orphan aside dropped after the warning.
arrange_step_drops_orphan(st, chunk) ==
    IF is_aside(chunk)
    THEN IF st.current_main_chunk # NoChunk
         THEN [st EXCEPT !.asides = add_aside(@, st.current_main_chunk, chunk)]
         ELSE [st EXCEPT !.told = Append(@, Diag("WARNING", "arrange_assides", chunk.id, None))]
    ELSE [st EXCEPT !.main_chunks = Append(@, chunk),
                    !.current_main_chunk = chunk]

arrange_step(st, chunk) ==
    IF is_aside(chunk)
    THEN IF st.current_main_chunk # NoChunk
         THEN [st EXCEPT !.asides = add_aside(@, st.current_main_chunk, chunk)]
         ELSE [st EXCEPT !.told = Append(@, Diag("WARNING", "arrange_assides", chunk.id, None)),
                         !.main_chunks = Append(@, chunk)]
    ELSE [st EXCEPT !.main_chunks = Append(@, chunk),
                    !.current_main_chunk = chunk]

RECURSIVE arrange_loop(_, _, _)
arrange_loop(cs, k, st) ==
    IF k > Len(cs) THEN st ELSE arrange_loop(cs, k + 1, arrange_step(st, cs[k]))

arrange_assides(cs, as) ==
    arrange_loop(cs, 1, [main_chunks |-> << >>, current_main_chunk |-> NoChunk,
                         asides |-> as, told |-> << >>])

\* ------------------------------------------------------------ group_chunks
\* Chunk.is_groupable, Chunk.is_group, Chunk.get_group and the group's
\* accepts, add_chunk and finish.  Figures are the groupable chunks; a group
\* accepts the chunks of the class it was opened for.
is_groupable(chunk) == chunk.cls \in {"Figure", "Gallery"}
is_group(chunk) == chunk.cls = "Group"
get_group(chunk) ==
    [Chunk(chunk.id, "Group", None, chunk.pv, FALSE) EXCEPT !.kind = chunk.cls]
accepts(group, chunk) == group.kind = chunk.cls
add_chunk(group, chunk) == [group EXCEPT !.members = Append(@, chunk)]
finish(group) == [group EXCEPT !.finished = @ + 1]

\* group_step with the chunk that closes a group appended before the group.
group_step_chunk_first(st, chunk) ==
    IF st.current_group # NoChunk
    THEN IF is_groupable(chunk) /\ accepts(st.current_group, chunk)
         THEN [st EXCEPT !.current_group = add_chunk(@, chunk)]
         ELSE IF is_group(chunk)
              THEN [new_chunks |-> Append(st.new_chunks, finish(st.current_group)),
                    current_group |-> chunk]
              ELSE [new_chunks |-> Append(Append(st.new_chunks, chunk),
                                          finish(st.current_group)),
                    current_group |-> NoChunk]
    ELSE IF is_groupable(chunk)
         THEN [st EXCEPT !.current_group = add_chunk(get_group(chunk), chunk)]
         ELSE IF is_group(chunk)
              THEN [st EXCEPT !.current_group = chunk]
              ELSE [st EXCEPT !.new_chunks = Append(@, chunk)]

\* group_step with a closed group appended without finish.
group_step_seals_unfinished(st, chunk) ==
    IF st.current_group # NoChunk
    THEN IF is_groupable(chunk) /\ accepts(st.current_group, chunk)
         THEN [st EXCEPT !.current_group = add_chunk(@, chunk)]
         ELSE LET sealed == Append(st.new_chunks, st.current_group)
              IN  IF is_group(chunk)
                  THEN [new_chunks |-> sealed, current_group |-> chunk]
                  ELSE [new_chunks |-> Append(sealed, chunk), current_group |-> NoChunk]
    ELSE IF is_groupable(chunk)
         THEN [st EXCEPT !.current_group = add_chunk(get_group(chunk), chunk)]
         ELSE IF is_group(chunk)
              THEN [st EXCEPT !.current_group = chunk]
              ELSE [st EXCEPT !.new_chunks = Append(@, chunk)]

group_step(st, chunk) ==
    IF st.current_group # NoChunk
    THEN IF is_groupable(chunk) /\ accepts(st.current_group, chunk)
         THEN [st EXCEPT !.current_group = add_chunk(@, chunk)]
         ELSE LET sealed == Append(st.new_chunks, finish(st.current_group))
              IN  IF is_group(chunk)
                  THEN [new_chunks |-> sealed, current_group |-> chunk]
                  ELSE [new_chunks |-> Append(sealed, chunk), current_group |-> NoChunk]
    ELSE IF is_groupable(chunk)
         THEN [st EXCEPT !.current_group = add_chunk(get_group(chunk), chunk)]
         ELSE IF is_group(chunk)
              THEN [st EXCEPT !.current_group = chunk]
              ELSE [st EXCEPT !.new_chunks = Append(@, chunk)]

RECURSIVE group_loop(_, _, _)
group_loop(cs, k, st) ==
    IF k > Len(cs) THEN st ELSE group_loop(cs, k + 1, group_step(st, cs[k]))

\* group_end with the group that is open at the end left out.
group_end_drops_open(st) == st.new_chunks

\* After the loop: the group that is still open is finished and appended.
group_end(st) ==
    IF st.current_group # NoChunk
    THEN Append(st.new_chunks, finish(st.current_group))
    ELSE st.new_chunks

group_chunks(cs) ==
    group_end(group_loop(cs, 1, [new_chunks |-> << >>, current_group |-> NoChunk]))

\* ------------------------------------------------------------ parse_lines
\* parse_lines, after cast: group_chunks(arrange_assides(chunks)).
Arrange(p) ==
    /\ pc[p] = "arrange"
    /\ LET st == arrange_assides(chunks[p], asides[p])
       IN  /\ main_chunks' = [main_chunks EXCEPT ![p] = st.main_chunks]
           /\ asides' = [asides EXCEPT ![p] = st.asides]
           /\ report' = [report EXCEPT ![p] = @ \o st.told]
    /\ pc' = [pc EXCEPT ![p] = "group"]
    /\ UNCHANGED << raws, yamlExtensions, idx, chunks, page_variables,
                    used_extensions, new_chunks, content, abort_draft, written >>
    /\ UNCHANGED notPipelineVars

Group(p) ==
    /\ pc[p] = "group"
    /\ new_chunks' = [new_chunks EXCEPT ![p] = group_chunks(main_chunks[p])]
    /\ pc' = [pc EXCEPT ![p] = "parsed"]
    /\ UNCHANGED << raws, yamlExtensions, idx, chunks, page_variables,
                    used_extensions, report, main_chunks, asides, content,
                    abort_draft, written >>
    /\ UNCHANGED notPipelineVars

\* ------------------------------------------------ _transform_page_to_html
\* What the loop over the chunks appends to content: the draft marker, or
\* the html of the asides of a chunk followed by the html of the chunk.
Html(what, id) == [what |-> what, id |-> id]

RECURSIVE html_of_all(_, _)
html_of_all(cs, what) ==
    IF cs = << >> THEN << >>
    ELSE << Html(what, Head(cs).id) >> \o html_of_all(Tail(cs), what)

AsidesOf(as, chunk) == IF is_group(chunk) THEN << >> ELSE as[chunk.id]

is_ok(chunk) == TRUE

IsDraft(pvars) == pvars["status"] # Absent /\ pvars["status"] = "draft"

RECURSIVE render_loop(_, _, _, _, _, _)
render_loop(cs, k, as, dicts, abort, out) ==
    IF k > Len(cs) THEN out
    ELSE LET chunk == cs[k]
         IN  IF abort /\ IsDraft(page_variables_of(dicts, chunk))
             THEN Append(out, Html("draft", 0))
             ELSE IF chunk.cls = "YAMLDataChunk"
                  THEN render_loop(cs, k + 1, as, dicts, abort, out)
                  ELSE IF ~is_ok(chunk)
                       THEN render_loop(cs, k + 1, as, dicts, abort, out)
                       ELSE render_loop(cs, k + 1, as, dicts, abort,
                                out \o html_of_all(AsidesOf(as, chunk), "aside")
                                    \o << Html("chunk", chunk.id) >>)

\* ------------------------------------------------------------ _process_file
\* no_chunks that takes no page for empty.
no_chunks_never(cs) == FALSE

\* `if not chunks`
no_chunks(cs) == cs = << >>

\* `if not chunks: return`: nothing is rendered or written for an empty
\* page.  Otherwise the page is rendered and write_file writes its target.
Skip(p) ==
    /\ pc[p] = "parsed"
    /\ no_chunks(new_chunks[p])
    /\ pc' = [pc EXCEPT ![p] = "done"]
    /\ UNCHANGED << raws, yamlExtensions, idx, chunks, page_variables,
                    used_extensions, report, main_chunks, asides, new_chunks,
                    content, abort_draft, written >>
    /\ UNCHANGED notPipelineVars

Render(p) ==
    /\ pc[p] = "parsed"
    /\ ~no_chunks(new_chunks[p])
    /\ content' = [content EXCEPT ![p] =
                      render_loop(new_chunks[p], 1, asides[p], page_variables,
                                  abort_draft, << >>)]
    /\ written' = [written EXCEPT ![p] = TRUE]
    /\ pc' = [pc EXCEPT ![p] = "done"]
    /\ UNCHANGED << raws, yamlExtensions, idx, chunks, page_variables,
                    used_extensions, report, main_chunks, asides, new_chunks,
                    abort_draft >>
    /\ UNCHANGED notPipelineVars

\* What _process_file does with the raw chunks rs of page p: parse_file
\* (cast, arrange_assides, group_chunks), then the page is rendered unless
\* it has no chunks.
process_file(rs, p, extensions, dicts, as, abort) ==
    LET st == cast_loop(CastState(1, << >>, EmptyDict, {}, << >>, FALSE),
                        rs, p, extensions)
    IN  IF st.raised
        THEN [cast |-> st, told |-> << >>, main_chunks |-> << >>, asides |-> as,
              new_chunks |-> << >>, content |-> << >>, written |-> FALSE]
        ELSE LET arranged == arrange_assides(st.chunks, as)
                 grouped == group_chunks(arranged.main_chunks)
             IN  [cast |-> st, told |-> arranged.told,
                  main_chunks |-> arranged.main_chunks,
                  asides |-> arranged.asides,
                  new_chunks |-> grouped,
                  written |-> ~no_chunks(grouped),
                  content |->
                     IF no_chunks(grouped) THEN << >>
                     ELSE render_loop(grouped, 1, arranged.asides,
                                      [dicts EXCEPT ![p] = st.page_variables],
                                      abort, << >>)]

\* _process_file as one task of the thread pool.  The task works on objects
\* of its own page only.
ProcessFile(p) ==
    /\ pc[p] = "submitted"
    /\ \E r \in { process_file(raws[p], p, yamlExtensions, page_variables,
                               asides[p], abort_draft) } :
           /\ pc' = [pc EXCEPT ![p] = IF r.cast.raised THEN "raised" ELSE "done"]
           /\ idx' = [idx EXCEPT ![p] = r.cast.idx]
           /\ chunks' = [chunks EXCEPT ![p] = r.cast.chunks]
           /\ page_variables' = [page_variables EXCEPT ![p] = r.cast.page_variables]
           /\ used_extensions' = [used_extensions EXCEPT ![p] = r.cast.used_extensions]
           /\ report' = [report EXCEPT ![p] = r.cast.report \o r.told]
           /\ main_chunks' = [main_chunks EXCEPT ![p] = r.main_chunks]
           /\ asides' = [asides EXCEPT ![p] = r.asides]
           /\ new_chunks' = [new_chunks EXCEPT ![p] = r.new_chunks]
           /\ content' = [content EXCEPT ![p] = r.content]
           /\ written' = [written EXCEPT ![p] = r.written]
    /\ UNCHANGED << raws, yamlExtensions, abort_draft >>
    /\ UNCHANGED notPipelineVars

\* ------------------------------------------------------- the parts at rest
\* The values of the variables of a part of the program that a
\* specification does not run.
MaxUrls == 2
Urls == 1..MaxUrls
NoTable == [t \in {} |-> None]
NoExtensions == [yaml |-> NoTable, paragraph |-> NoTable, tableclass |-> NoTable]

GroupIdle ==
    /\ group_in = << >>
    /\ group_idx = 0
    /\ group_out = << >>
    /\ current_group = NoChunk
    /\ group_pc = "idle"
    /\ no_group_at = {}

RegistryIdle ==
    /\ extension_points = NoExtensions
    /\ registrations = << >>
    /\ load_pc = "idle"
    /\ modules = << >>
    /\ load_idx = 0
    /\ load_report = << >>

LinksIdle ==
    /\ urls = [u \in Urls |-> 0]
    /\ sets = << >>
    /\ link_pc = [w \in Pages |-> "idle"]
    /\ link_url = [w \in Pages |-> 0]
    /\ link_set = [w \in Pages |-> 0]
    /\ link_done = [w \in Pages |-> << >>]

CheckIdle ==
    /\ probe = [u \in Urls |-> None]
    /\ probes = [u \in Urls |-> 0]
    /\ warnings = {}
    /\ check_pc = "idle"

PoolIdle ==
    /\ build_pc = "idle"
    /\ build_k = 0

AssetsIdle ==
    /\ asset_used = {}
    /\ all_css = << >>
    /\ all_js = << >>
    /\ asset_pc = {}

\* ---------------------------------------------------------- specifications
\* The state when HTMLBuilder.build has listed its jobs: the pages of jobs
\* are to be built, from raw chunks of segs, the other pages are not
\* touched.
Start(jobs, at, segs, n, tables, aborts) ==
    /\ raws \in { [p \in Pages |-> IF p \in jobs THEN f[p] ELSE << >>] :
                     f \in [jobs -> SeqsUpTo(segs, n)] }
    /\ yamlExtensions \in tables
    /\ abort_draft \in aborts
    /\ pc = [p \in Pages |-> IF p \in jobs THEN at ELSE "none"]
    /\ idx = [p \in Pages |-> 1]
    /\ chunks = [p \in Pages |-> << >>]
    /\ page_variables = [p \in Pages |-> EmptyDict]
    /\ used_extensions = [p \in Pages |-> {}]
    /\ report = [p \in Pages |-> << >>]
    /\ main_chunks = [p \in Pages |-> << >>]
    /\ asides = [p \in Pages |-> [i \in 1..Len(raws[p]) |-> << >>]]
    /\ new_chunks = [p \in Pages |-> << >>]
    /\ content = [p \in Pages |-> << >>]
    /\ written = [p \in Pages |-> FALSE]

\* No page is being built.
PipelineIdle == Start({}, "none", {}, 0, { NoTable }, {FALSE})

\* One job: build calls _process_file itself.  The steps of the one page
\* are taken one at a time.
Init ==
    /\ Start({1}, "cast", Segments, MaxSegs, YamlTables, BOOLEAN)
    /\ GroupIdle /\ RegistryIdle /\ LinksIdle /\ CheckIdle /\ PoolIdle /\ AssetsIdle

Next ==
    \E p \in Pages :
        \/ CastStep(p)
        \/ CastReturn(p)
        \/ Arrange(p)
        \/ Group(p)
        \/ Skip(p)
        \/ Render(p)

Spec == Init /\ [][Next]_vars

\* Several jobs: each page is a task submitted to the thread pool, and the
\* tasks run in any order.
InitPages ==
    /\ Start(Pages, "submitted", PageSegments, MaxPageSegs,
             { [t \in {"figure"} |-> "FigureExt"] }, {TRUE})
    /\ GroupIdle /\ RegistryIdle /\ LinksIdle /\ CheckIdle /\ PoolIdle /\ AssetsIdle

NextPages == \E p \in Pages : ProcessFile(p)

SpecPages == InitPages /\ [][NextPages]_vars

\* ------------------------------------------- group_chunks, step by step
\* One call of group_chunks on a list of chunks as cast and arrange_assides
\* hand them over: groupable chunks of two classes, chunks that are neither
\* groupable nor groups, and chunks that are groups themselves.  The chunk
\* at position i has id i.
MaxGroupIn == 4
Shapes == {"Figure", "Gallery", "MarkdownChunk", "Group"}

ChunkOfShape(i, shape) ==
    IF shape = "Group"
    THEN [Chunk(i, "Group", None, 1, FALSE) EXCEPT !.kind = "Figure"]
    ELSE Chunk(i, shape, None, 1, FALSE)

GroupInputs ==
    UNION { { [i \in 1..n |-> ChunkOfShape(i, f[i])] : f \in [1..n -> Shapes] } :
            n \in 0..MaxGroupIn }

InitGroup ==
    /\ group_in \in GroupInputs
    /\ group_idx = 1
    /\ group_out = << >>
    /\ current_group = NoChunk
    /\ group_pc = "loop"
    /\ no_group_at = {}
    /\ PipelineIdle /\ RegistryIdle /\ LinksIdle /\ CheckIdle /\ PoolIdle /\ AssetsIdle

\* One iteration of `for chunk in chunks`.
GroupStep ==
    /\ group_pc = "loop"
    /\ group_idx <= Len(group_in)
    /\ LET st == group_step([new_chunks |-> group_out,
                             current_group |-> current_group],
                            group_in[group_idx])
       IN  /\ group_out' = st.new_chunks
           /\ current_group' = st.current_group
    /\ no_group_at' = IF current_group = NoChunk
                      THEN no_group_at \cup {group_idx} ELSE no_group_at
    /\ group_idx' = group_idx + 1
    /\ UNCHANGED << group_in, group_pc >>
    /\ UNCHANGED << pipelineVars, registryVars, linkVars, checkVars, poolVars, assetVars >>

\* The end of the loop, and `return new_chunks`.
GroupReturn ==
    /\ group_pc = "loop"
    /\ group_idx > Len(group_in)
    /\ group_out' = group_end([new_chunks |-> group_out,
                               current_group |-> current_group])
    /\ current_group' = NoChunk
    /\ group_pc' = "returned"
    /\ UNCHANGED << group_in, group_idx, no_group_at >>
    /\ UNCHANGED << pipelineVars, registryVars, linkVars, checkVars, poolVars, assetVars >>

NextGroup == GroupStep \/ GroupReturn

SpecGroup == InitGroup /\ [][NextGroup]_vars

\* ------------------------------------------------------- extension points
\* The extensions of the model.  A YamlExtension has its `type`, a string or
\* a sequence of strings; a ParagraphExtension its `tag` and `extra_tags`; a
\* TableClassExtension its `type`.  OtherExt is an Extension of none of the
\* three families.
YamlExtensionNames == {"FigureExt", "GalleryExt"}
ParagraphExtensionNames == {"HintExt", "NoteExt"}
TableClassExtensionNames == {"StripedExt", "ZebraExt"}
Extensions ==
    YamlExtensionNames \cup ParagraphExtensionNames
        \cup TableClassExtensionNames \cup {"OtherExt"}

type(extension) ==
    CASE extension = "FigureExt" -> "figure"
      [] extension = "GalleryExt" -> << "figure", "image" >>
      [] OTHER -> "striped"
tag(extension) == IF extension = "HintExt" THEN "hint" ELSE "note"
extra_tags(extension) == IF extension = "HintExt" THEN None ELSE << "hint" >>
\* isinstance(extension.type, str), and extension.extra_tags is not None
type_is_str(extension) == extension # "GalleryExt"
has_extra_tags(extension) == extension # "HintExt"

\* extensions[key] = extension
SetItem(extensions, key, extension) ==
    [k \in DOMAIN extensions \cup {key} |->
        IF k = key THEN extension ELSE extensions[k]]

\* for key in keys: extensions[key] = extension
RECURSIVE SetItems(_, _, _)
SetItems(extensions, keys, extension) ==
    IF keys = << >> THEN extensions
    ELSE SetItems(SetItem(extensions, Head(keys), extension), Tail(keys), extension)

\* YamlExtensionPoint.register with a type kept for the extension that
\* registered it first.
RECURSIVE KeepItems(_, _, _)
KeepItems(extensions, keys, extension) ==
    IF keys = << >> THEN extensions
    ELSE KeepItems(IF Head(keys) \in DOMAIN extensions THEN extensions
                   ELSE SetItem(extensions, Head(keys), extension),
                   Tail(keys), extension)

YamlExtensionPoint_register_first_wins(extensions, extension) ==
    KeepItems(extensions,
              IF type_is_str(extension) THEN << type(extension) >> ELSE type(extension),
              extension)

YamlExtensionPoint_register(extensions, extension) ==
    LET types == IF type_is_str(extension) THEN << type(extension) >>
                 ELSE type(extension)
    IN  SetItems(extensions, types, extension)

ParagraphExtensionPoint_register(extensions, extension) ==
    LET tagged == SetItem(extensions, tag(extension), extension)
    IN  IF has_extra_tags(extension)
        THEN SetItems(tagged, extra_tags(extension), extension)
        ELSE tagged

TableClassExtensionPoint_register(extensions, extension) ==
    SetItem(extensions, type(extension), extension)

register_falls_back_to_yaml(points, extension) ==
    IF extension \in ParagraphExtensionNames
    THEN [points EXCEPT !.paragraph = ParagraphExtensionPoint_register(@, extension)]
    ELSE IF extension \in TableClassExtensionNames
         THEN [points EXCEPT !.tableclass =
                                TableClassExtensionPoint_register(@, extension)]
         ELSE [points EXCEPT !.yaml = YamlExtensionPoint_register(@, extension)]

\* Core.register: the extension goes to the point of its family; for an
\* extension of no family a ValueError is built and dropped, never raised.
register(points, extension) ==
    IF extension \in YamlExtensionNames
    THEN [points EXCEPT !.yaml = YamlExtensionPoint_register(@, extension)]
    ELSE IF extension \in ParagraphExtensionNames
         THEN [points EXCEPT !.paragraph = ParagraphExtensionPoint_register(@, extension)]
         ELSE IF extension \in TableClassExtensionNames
              THEN [points EXCEPT !.tableclass =
                                     TableClassExtensionPoint_register(@, extension)]
              ELSE points

MaxRegs == 3

InitRegister ==
    /\ RegistryIdle
    /\ PipelineIdle /\ GroupIdle /\ LinksIdle /\ CheckIdle /\ PoolIdle /\ AssetsIdle

\* A call of Core.register.
Register(extension) ==
    /\ Len(registrations) < MaxRegs
    /\ extension_points' = register(extension_points, extension)
    /\ registrations' = Append(registrations, extension)
    /\ UNCHANGED << load_pc, modules, load_idx, load_report >>
    /\ UNCHANGED << pipelineVars, groupVars, linkVars, checkVars, poolVars, assetVars >>

NextRegister == \E extension \in Extensions : Register(extension)

SpecRegister == InitRegister /\ [][NextRegister]_vars

\* -------------------------------------------------------- _load_extensions
\* A directory under extensions/ is a module: importing it succeeds or
\* raises, and a module that was imported has its Extension classes, each
\* with what its construction and registration do.
MaxModules == 2
MaxClasses == 2
LoadOutcomes == {"ok", "ModuleNotFoundError", "SyntaxError"}
Classes == [extension : {"FigureExt", "HintExt"}, raises : {FALSE}]
               \cup [extension : {"FigureExt"}, raises : {TRUE}]
Modules ==
    [load : {"ok"}, clsmembers : SeqsUpTo(Classes, MaxClasses)]
        \cup [load : LoadOutcomes \ {"ok"}, clsmembers : { << >> }]

Told(level, module, class) == [level |-> level, module |-> module, class |-> class]

\* The loop over clsmembers: a class whose construction or registration
\* raises is printed and passed over (`except Exception`).
RECURSIVE register_classes(_, _, _, _)
register_classes(st, clsmembers, k, at) ==
    IF k > Len(clsmembers) THEN st
    ELSE register_classes(
             IF clsmembers[k].raises THEN st
             ELSE [st EXCEPT
                     !.points = register(@, clsmembers[k].extension),
                     !.registrations = Append(@, clsmembers[k].extension),
                     !.report = Append(@, Told("INFO", at, k))],
             clsmembers, k + 1, at)

\* _register_module for the module at position `at`: import_module raising
\* ModuleNotFoundError is reported, any other exception of import_module
\* leaves _register_module.
_register_module(st, module, at) ==
    IF module.load = "ok"
    THEN register_classes(st, module.clsmembers, 1, at)
    ELSE IF module.load = "ModuleNotFoundError"
         THEN [st EXCEPT !.report = Append(@, Told("ERROR", at, 0))]
         ELSE [st EXCEPT !.raised = TRUE]

InitLoad ==
    /\ extension_points = NoExtensions
    /\ registrations = << >>
    /\ load_pc = "loading"
    /\ modules \in SeqsUpTo(Modules, MaxModules)
    /\ load_idx = 1
    /\ load_report = << >>
    /\ PipelineIdle /\ GroupIdle /\ LinksIdle /\ CheckIdle /\ PoolIdle /\ AssetsIdle

\* One iteration of the loop of _load_extensions.
LoadModule ==
    /\ load_pc = "loading"
    /\ load_idx <= Len(modules)
    /\ LET st == _register_module([points |-> extension_points,
                                   registrations |-> registrations,
                                   report |-> load_report, raised |-> FALSE],
                                  modules[load_idx], load_idx)
       IN  /\ extension_points' = st.points
           /\ registrations' = st.registrations
           /\ load_report' = st.report
           /\ load_pc' = IF st.raised THEN "raised" ELSE load_pc
    /\ load_idx' = load_idx + 1
    /\ UNCHANGED modules
    /\ UNCHANGED << pipelineVars, groupVars, linkVars, checkVars, poolVars, assetVars >>

\* The loop is through: Core.__init__ goes on.
LoadDone ==
    /\ load_pc = "loading"
    /\ load_idx > Len(modules)
    /\ load_pc' = "done"
    /\ UNCHANGED << extension_points, registrations, modules, load_idx, load_report >>
    /\ UNCHANGED << pipelineVars, groupVars, linkVars, checkVars, poolVars, assetVars >>

NextLoad == LoadModule \/ LoadDone

SpecLoad == InitLoad /\ [][NextLoad]_vars

\* ------------------------------------------------ URLChecker.look_at_chunk
\* The tasks of the thread pool cast their pages with the one Core and its
\* one URLChecker.  Worker w casts the chunk LinkChunk(w), whose get_urls()
\* gives one reference, and look_at_chunk runs
\*     self.urls[url] |= {chunk}
\* which is, in this order: the subscription self.urls[url]; for a missing
\* key the __missing__ of defaultdict, which calls set() and inserts the new
\* set under the key; the in-place union of the loaded set with {chunk}; and
\* the store of the loaded set under the key.  Nothing in look_at_chunk
\* holds a lock, so another thread may run between any two of them.  sets
\* holds the set objects, urls[u] the object under key u, or 0.
LinkChunk(w) == [page |-> w]

InitLinks ==
    /\ urls = [u \in Urls |-> 0]
    /\ sets = << >>
    /\ link_pc = [w \in Pages |-> "cast"]
    /\ link_url = [w \in Pages |-> 0]
    /\ link_set = [w \in Pages |-> 0]
    /\ link_done = [w \in Pages |-> << >>]
    /\ PipelineIdle /\ GroupIdle /\ RegistryIdle /\ CheckIdle /\ PoolIdle /\ AssetsIdle

\* `for url in chunk_urls`
LookAtChunk(w) ==
    /\ link_pc[w] = "cast"
    /\ \E u \in Urls : link_url' = [link_url EXCEPT ![w] = u]
    /\ link_pc' = [link_pc EXCEPT ![w] = "subscr"]
    /\ UNCHANGED << urls, sets, link_set, link_done >>
    /\ UNCHANGED << pipelineVars, groupVars, registryVars, checkVars, poolVars, assetVars >>

\* self.urls[url]: the key is there and its set is loaded, or it is missing.
Subscr(w) ==
    /\ link_pc[w] = "subscr"
    /\ IF urls[link_url[w]] # 0
       THEN /\ link_set' = [link_set EXCEPT ![w] = urls[link_url[w]]]
            /\ link_pc' = [link_pc EXCEPT ![w] = "ior"]
       ELSE /\ link_pc' = [link_pc EXCEPT ![w] = "missing"]
            /\ UNCHANGED link_set
    /\ UNCHANGED << urls, sets, link_url, link_done >>
    /\ UNCHANGED << pipelineVars, groupVars, registryVars, checkVars, poolVars, assetVars >>

\* defaultdict.__missing__: self[key] = value = set()
Missing(w) ==
    /\ link_pc[w] = "missing"
    /\ sets' = Append(sets, {})
    /\ urls' = [urls EXCEPT ![link_url[w]] = Len(sets) + 1]
    /\ link_set' = [link_set EXCEPT ![w] = Len(sets) + 1]
    /\ link_pc' = [link_pc EXCEPT ![w] = "ior"]
    /\ UNCHANGED << link_url, link_done >>
    /\ UNCHANGED << pipelineVars, groupVars, registryVars, checkVars, poolVars, assetVars >>

\* `|= {chunk}` on the loaded set, in place.
InplaceOr(w) ==
    /\ link_pc[w] = "ior"
    /\ sets' = [sets EXCEPT ![link_set[w]] = @ \cup {LinkChunk(w)}]
    /\ link_pc' = [link_pc EXCEPT ![w] = "store"]
    /\ UNCHANGED << urls, link_url, link_set, link_done >>
    /\ UNCHANGED << pipelineVars, groupVars, registryVars, checkVars, poolVars, assetVars >>

\* self.urls[url] = the loaded set; look_at_chunk and cast return.
StoreSubscr(w) ==
    /\ link_pc[w] = "store"
    /\ urls' = [urls EXCEPT ![link_url[w]] = link_set[w]]
    /\ link_done' = [link_done EXCEPT ![w] = Append(@, link_url[w])]
    /\ link_pc' = [link_pc EXCEPT ![w] = "done"]
    /\ UNCHANGED << sets, link_url, link_set >>
    /\ UNCHANGED << pipelineVars, groupVars, registryVars, checkVars, poolVars, assetVars >>

NextLinks ==
    \E w \in Pages :
        \/ LookAtChunk(w)
        \/ Subscr(w)
        \/ Missing(w)
        \/ InplaceOr(w)
        \/ StoreSubscr(w)

SpecLinks == InitLinks /\ [][NextLinks]_vars

\* -------------------------------------------------------- URLChecker.check
\* What requests.get(url) does: it returns a response with a status code, or
\* raises MissingSchema (a reference without a scheme, a relative link), or
\* raises another RequestException (the target cannot be reached).
Response(status_code) == [raises |-> None, status_code |-> status_code]
Raises(exception) == [raises |-> exception, status_code |-> 0]
ProbeOutcomes ==
    { Response(200), Response(204), Response(404),
      Raises("MissingSchema"), Raises("ConnectionError") }
NotCollected == Raises(None)

\* The chunks that reference one url: the chunk of page 1, or the chunks of
\* pages 1 and 2.
ChunkSets == { {LinkChunk(1)}, {LinkChunk(1), LinkChunk(2)} }

\* _check_url: the (chunk, url) pairs chunk.warning is called for.
_check_url(url, cs, outcome) ==
    IF outcome.raises = None
    THEN IF outcome.status_code # 200
         THEN { << chunk, url >> : chunk \in cs }
         ELSE {}
    ELSE IF outcome.raises = "MissingSchema"
         THEN {}
         ELSE { << chunk, url >> : chunk \in cs }

\* The state when check is called: some references were collected, each
\* with the chunks that hold it.
InitCheck ==
    /\ \E f \in [Urls -> [chunks : ChunkSets, outcome : ProbeOutcomes]
                            \cup [chunks : { {} }, outcome : { NotCollected }]] :
          /\ urls = [u \in Urls |-> IF f[u].chunks = {} THEN 0 ELSE u]
          /\ sets = [u \in Urls |-> f[u].chunks]
          /\ probe = [u \in Urls |-> f[u].outcome]
    /\ probes = [u \in Urls |-> 0]
    /\ warnings = {}
    /\ check_pc = "checking"
    /\ link_pc = [w \in Pages |-> "idle"]
    /\ link_url = [w \in Pages |-> 0]
    /\ link_set = [w \in Pages |-> 0]
    /\ link_done = [w \in Pages |-> << >>]
    /\ PipelineIdle /\ GroupIdle /\ RegistryIdle /\ PoolIdle /\ AssetsIdle

\* The task e.submit(self._check_url, url, chunks) of one url of
\* self.urls.items(); the tasks run in any order.
CheckUrl(u) ==
    /\ check_pc = "checking"
    /\ urls[u] # 0
    /\ probes[u] = 0
    /\ probes' = [probes EXCEPT ![u] = @ + 1]
    /\ warnings' = warnings \cup _check_url(u, sets[urls[u]], probe[u])
    /\ UNCHANGED << probe, check_pc, linkVars >>
    /\ UNCHANGED << pipelineVars, groupVars, registryVars, poolVars, assetVars >>

\* `for future in futures: future.result()`: every task is through.
CheckReturn ==
    /\ check_pc = "checking"
    /\ \A u \in Urls : urls[u] # 0 => probes[u] > 0
    /\ check_pc' = "returned"
    /\ UNCHANGED << probe, probes, warnings, linkVars >>
    /\ UNCHANGED << pipelineVars, groupVars, registryVars, poolVars, assetVars >>

NextCheck == (\E u \in Urls : CheckUrl(u)) \/ CheckReturn

SpecCheck == InitCheck /\ [][NextCheck]_vars

\* ------------------------------------------- build with the thread pool
\* HTMLBuilder.build with more than one job: the main thread submits a task
\* for every job, then asks every future for its result, in the order of
\* submission; result() raises what the task raised.  Leaving the block of
\* `with ThreadPoolExecutor() as e`, normally or by an exception, calls
\* shutdown(wait=True), which waits for every task that was submitted.
MaxPoolSegs == 2
PoolSegments == { Prose("hint"), Yaml("ParserError", EmptyDict) }

\* shutdown that cancels the tasks no thread has started yet.
shutdown_cancels(tasks) ==
    [p \in DOMAIN tasks |-> IF tasks[p] = "submitted" THEN "cancelled" ELSE tasks[p]]

\* ThreadPoolExecutor.__exit__: shutdown(wait=True) cancels nothing.
shutdown(tasks) == tasks

InitPool ==
    /\ Start(Pages, "job", PoolSegments, MaxPoolSegs,
             { [t \in {"figure"} |-> "FigureExt"] }, {TRUE})
    /\ build_pc = "submit"
    /\ build_k = 1
    /\ GroupIdle /\ RegistryIdle /\ LinksIdle /\ CheckIdle /\ AssetsIdle

\* e.submit(self._process_file, ...) for the next job.
Submit ==
    /\ build_pc = "submit"
    /\ build_k <= NumPages
    /\ pc' = [pc EXCEPT ![build_k] = "submitted"]
    /\ build_k' = build_k + 1
    /\ UNCHANGED << raws, yamlExtensions, idx, chunks, page_variables,
                    used_extensions, report, main_chunks, asides, new_chunks,
                    content, abort_draft, written, build_pc >>
    /\ UNCHANGED << groupVars, registryVars, linkVars, checkVars, assetVars >>

\* `for job in jobs` is through: `for future in futures` begins.
Submitted ==
    /\ build_pc = "submit"
    /\ build_k > NumPages
    /\ build_pc' = "result"
    /\ build_k' = 1
    /\ UNCHANGED << pipelineVars, groupVars, registryVars, linkVars, checkVars, assetVars >>

\* future.result() of the next future: it waits for the task, and raises
\* what the task raised, which leaves the block of the executor.
Result ==
    /\ build_pc = "result"
    /\ build_k <= NumPages
    /\ pc[build_k] \in {"done", "raised"}
    /\ IF pc[build_k] = "raised"
       THEN /\ build_pc' = "exit raising"
            /\ pc' = shutdown(pc)
            /\ UNCHANGED build_k
       ELSE /\ build_k' = build_k + 1
            /\ UNCHANGED << pc, build_pc >>
    /\ UNCHANGED << raws, yamlExtensions, idx, chunks, page_variables,
                    used_extensions, report, main_chunks, asides, new_chunks,
                    content, abort_draft, written >>
    /\ UNCHANGED << groupVars, registryVars, linkVars, checkVars, assetVars >>

\* Every result was there: the block of the executor is left normally.
Results ==
    /\ build_pc = "result"
    /\ build_k > NumPages
    /\ build_pc' = "exit"
    /\ pc' = shutdown(pc)
    /\ UNCHANGED << raws, yamlExtensions, idx, chunks, page_variables,
                    used_extensions, report, main_chunks, asides, new_chunks,
                    content, abort_draft, written, build_k >>
    /\ UNCHANGED << groupVars, registryVars, linkVars, checkVars, assetVars >>

\* shutdown(wait=True) returns when no submitted task is left to run; build
\* then returns, or the exception goes on to its caller.
Shutdown ==
    /\ build_pc \in {"exit", "exit raising"}
    /\ \A p \in Pages : pc[p] # "submitted"
    /\ build_pc' = IF build_pc = "exit" THEN "returned" ELSE "raised"
    /\ UNCHANGED << pipelineVars, build_k >>
    /\ UNCHANGED << groupVars, registryVars, linkVars, checkVars, assetVars >>

NextPool ==
    \/ Submit
    \/ Submitted
    \/ \E p \in Pages : ProcessFile(p)
    \/ Result
    \/ Results
    \/ Shutdown

SpecPool == InitPool /\ [][NextPool]_vars

\* ------------------------------------------------------------ SpecAssets
\* Core.get_css and Core.get_js over the extensions a page used.
\* _load_extensions registers the modules supermark.extensions.<name>, one per
\* directory under extensions/, and _register_module sets each extension's
\* folder to its module's directory: the folders are siblings, told apart by
\* their name, which is a number of 1..MaxFolders here.

MaxFolders == 2

Folders == 1..MaxFolders

AssetExtensionNames == { "FigureExt", "HintExt", "StripedExt" }

\* Extension.get_css: the stylesheet of the extension's folder, "" when the
\* folder has none.
Stylesheets == { "", "css" }

\* extension.set_folder(Path(module.__file__).parent): the extensions of one
\* folder share its assets.
set_folder(name, folder, sheets) ==
    [ name |-> name, folder |-> folder, css |-> sheets[folder] ]

\* The sets of used extensions: any of the extensions, each in some folder.
UsedSets ==
    UNION { { { set_folder(n, f[n], sheets) : n \in names } :
                f \in [names -> Folders], sheets \in [Folders -> Stylesheets] } :
            names \in SUBSET AssetExtensionNames }

\* sorted(list(used_extensions), key=lambda e: e.folder): the list of a set
\* comes in any order and the sort is stable, so extensions of one folder
\* come in any order.
sorted_by_folder(used) ==
    { order \in [1..Cardinality(used) -> used] :
        /\ \A i, j \in 1..Cardinality(used) : i # j => order[i] # order[j]
        /\ \A i, j \in 1..Cardinality(used) :
               i < j => order[i].folder <= order[j].folder }

\* The fragments one extension adds to the stylesheet: the header line of its
\* folder and the folder's css, nothing if the css is empty.
css_fragment(extension) ==
    IF extension.css # "" THEN << extension.folder >> ELSE << >>

\* The fragment one extension adds to the script: extension.get_js() + "\n".
js_fragment(extension) == << extension.folder >>

not_in_folders_by_identity(folders, extension) == TRUE

\* if extension.folder.name not in folders
not_in_folders(folders, extension) == extension.folder \notin folders

RECURSIVE get_css_loop(_, _, _, _)
get_css_loop(order, k, folders, css) ==
    IF k > Len(order) THEN css
    ELSE IF not_in_folders(folders, order[k])
         THEN get_css_loop(order, k + 1, folders \cup { order[k].folder },
                           css \o css_fragment(order[k]))
         ELSE get_css_loop(order, k + 1, folders, css)

get_css(order) == get_css_loop(order, 1, {}, << >>)

RECURSIVE get_js_loop(_, _, _, _)
get_js_loop(order, k, folders, js) ==
    IF k > Len(order) THEN js
    ELSE IF not_in_folders(folders, order[k])
         THEN get_js_loop(order, k + 1, folders \cup { order[k].folder },
                          js \o js_fragment(order[k]))
         ELSE get_js_loop(order, k + 1, folders, js)

get_js(order) == get_js_loop(order, 1, {}, << >>)

InitAssets ==
    /\ asset_used \in UsedSets
    /\ all_css = << >>
    /\ all_js = << >>
    /\ asset_pc = {}
    /\ PipelineIdle /\ GroupIdle /\ RegistryIdle /\ LinksIdle /\ CheckIdle /\ PoolIdle

GetCss ==
    /\ "get_css" \notin asset_pc
    /\ \E order \in sorted_by_folder(asset_used) : all_css' = get_css(order)
    /\ asset_pc' = asset_pc \cup { "get_css" }
    /\ UNCHANGED << asset_used, all_js >>
    /\ UNCHANGED << pipelineVars, groupVars, registryVars, linkVars, checkVars, poolVars >>

GetJs ==
    /\ "get_js" \notin asset_pc
    /\ \E order \in sorted_by_folder(asset_used) : all_js' = get_js(order)
    /\ asset_pc' = asset_pc \cup { "get_js" }
    /\ UNCHANGED << asset_used, all_css >>
    /\ UNCHANGED << pipelineVars, groupVars, registryVars, linkVars, checkVars, poolVars >>

NextAssets == GetCss \/ GetJs

SpecAssets == InitAssets /\ [][NextAssets]_vars

\* ================================================================ claims
AfterArrange(p) == pc[p] \in {"group", "parsed", "done"}
AfterGroup(p) == pc[p] \in {"parsed", "done"}

RECURSIVE SumLen(_, _)
SumLen(f, S) ==
    IF S = {} THEN 0
    ELSE LET i == CHOOSE x \in S : TRUE IN Len(f[i]) + SumLen(f, S \ {i})

Range(s) == { s[k] : k \in DOMAIN s }
Ids(s) == { s[k].id : k \in DOMAIN s }
Attached(p) == UNION { Range(asides[p][i]) : i \in DOMAIN asides[p] }
NoRepeat(s) == \A j, k \in DOMAIN s : s[j] = s[k] => j = k
DiagsAt(p, i) == { k \in DOMAIN report[p] : report[p][k].at = i }

\* C1: arrange_assides accounts for every chunk exactly once: the chunks it
\* returns plus the chunks appended to aside lists are as many as the input
\* chunks, they are the input chunks, none occurs twice, and no chunk is
\* both returned and attached.
C1_EveryChunkOnce ==
    \A p \in Pages : AfterArrange(p) =>
        /\ Len(main_chunks[p]) + SumLen(asides[p], DOMAIN asides[p]) = Len(chunks[p])
        /\ Range(main_chunks[p]) \cup Attached(p) = Range(chunks[p])
        /\ Range(main_chunks[p]) \cap Attached(p) = {}
        /\ NoRepeat(main_chunks[p])
        /\ \A i \in DOMAIN asides[p] : NoRepeat(asides[p][i])
        /\ \A i, j \in DOMAIN asides[p] :
              i # j => Range(asides[p][i]) \cap Range(asides[p][j]) = {}

C1_Witness ==
    \E p \in Pages :
        /\ AfterArrange(p)
        /\ Len(chunks[p]) = 3
        /\ Len(main_chunks[p]) = 2
        /\ is_aside(main_chunks[p][1])
        /\ Attached(p) # {}

\* The chunks of new_chunks[p] and the members of its groups.
InGroups(p) ==
    UNION { Range(new_chunks[p][k].members) : k \in DOMAIN new_chunks[p] }

\* Position k of the cast chunks of page p has a chunk before it that is not
\* an aside.
MainBefore(p, k) == \E j \in 1..(k - 1) : ~is_aside(chunks[p][j])

\* The nearest chunk before position k that is not an aside.
OwnerOf(p, k) ==
    chunks[p][CHOOSE j \in 1..(k - 1) :
                 /\ ~is_aside(chunks[p][j])
                 /\ \A i \in (j + 1)..(k - 1) : is_aside(chunks[p][i])]

\* C2 as stated: in the final top-level sequence of a page an aside is
\* standalone only as the very first chunk of the page.
C2_AsideStandaloneOnlyFirst ==
    \A p \in Pages : AfterGroup(p) =>
        \A k \in DOMAIN new_chunks[p] :
            is_aside(new_chunks[p][k]) => new_chunks[p][k] = chunks[p][1]

\* C2, amended: in the final top-level sequence of a page an aside is
\* standalone exactly when no chunk that is not an aside precedes it on the
\* page; every other aside is in the aside list of the nearest preceding
\* chunk that is not an aside, in no other aside list, and neither top-level
\* nor a member of a group.
C2_AsideStandaloneOnlyLeading ==
    \A p \in Pages : AfterGroup(p) =>
        \A k \in DOMAIN chunks[p] :
            is_aside(chunks[p][k]) =>
                IF MainBefore(p, k)
                THEN /\ chunks[p][k] \notin Range(new_chunks[p])
                     /\ chunks[p][k] \notin InGroups(p)
                     /\ \A i \in DOMAIN asides[p] :
                           chunks[p][k] \in Range(asides[p][i]) <=> i = OwnerOf(p, k).id
                ELSE /\ chunks[p][k] \in Range(new_chunks[p])
                     /\ chunks[p][k] \notin Attached(p)

C2_Witness ==
    \E p \in Pages :
        /\ AfterGroup(p)
        /\ Len(chunks[p]) = 3
        /\ is_aside(chunks[p][1]) /\ is_aside(chunks[p][2])
        /\ Len(new_chunks[p]) = 3
        /\ new_chunks[p][2] = chunks[p][2]
        /\ is_group(new_chunks[p][3])

\* C3 as stated: an aside that follows a data declaration, with nothing but
\* data declarations before it, gets a warning, is returned by
\* arrange_assides as a top-level chunk, is in no aside list, and its html
\* is in the rendered page (unless the page is cut at the draft marker).
OnlyDataBefore(p, k) ==
    /\ k > 1
    /\ \A j \in 1..(k - 1) : chunks[p][j].cls = "YAMLDataChunk"

Rendered(p, chunk) ==
    \E k \in DOMAIN content[p] :
        content[p][k].what \in {"chunk", "aside"} /\ content[p][k].id = chunk.id

C3_AsideAfterDataStandalone ==
    \A p \in Pages : \A k \in DOMAIN chunks[p] :
        (is_aside(chunks[p][k]) /\ OnlyDataBefore(p, k)) =>
            /\ AfterArrange(p) =>
                 /\ chunks[p][k] \in Range(main_chunks[p])
                 /\ chunks[p][k] \notin Attached(p)
                 /\ \E d \in DiagsAt(p, chunks[p][k].id) :
                       report[p][d].level = "WARNING"
            /\ (pc[p] = "done" /\ ~(abort_draft /\ IsDraft(page_variables[p]))) =>
                 Rendered(p, chunks[p][k])

\* C4: when the first chunk of a page is an aside, arrange_assides returns
\* it as the first top-level chunk, attaches it to nothing, and exactly one
\* WARNING is told for it.
C4_FirstAsideKeptWithOneWarning ==
    \A p \in Pages :
        (AfterArrange(p) /\ chunks[p] # << >> /\ is_aside(chunks[p][1])) =>
            /\ main_chunks[p] # << >>
            /\ main_chunks[p][1] = chunks[p][1]
            /\ chunks[p][1] \notin Attached(p)
            /\ Cardinality({ d \in DiagsAt(p, chunks[p][1].id) :
                               report[p][d].level = "WARNING" }) = 1

C4_Witness ==
    \E p \in Pages :
        /\ AfterArrange(p)
        /\ Len(chunks[p]) = 3
        /\ is_aside(chunks[p][1])
        /\ ~is_aside(chunks[p][2])
        /\ is_aside(chunks[p][3])
        /\ main_chunks[p][1] = chunks[p][1]

\* ------------------------------------------------------- page variables
\* Raw chunk i of page p is a data declaration: YAML that loads as a mapping
\* without a `type` key.
IsDeclaration(raw) ==
    raw.type = "YAML" /\ raw.load = "dict" /\ raw.dict["type"] = Absent

\* The keys the data declarations among the raw chunks S of page p declare.
DeclaredIn(p, S) ==
    UNION { KeysOf(raws[p][i].dict) : i \in { j \in S : IsDeclaration(raws[p][j]) } }

\* C5 as stated: the view of a chunk holds only keys declared by data
\* declarations that precede the chunk in source order (a data declaration
\* is allowed its own keys).
C5_ViewOnlyEarlierKeys ==
    \A p \in Pages : \A k \in DOMAIN chunks[p] :
        KeysOf(View(chunks[p][k])) \subseteq DeclaredIn(p, 1..chunks[p][k].id)

\* C6: a data declaration is never rendered; once it is cast, its keys are
\* in the view of every chunk cast after it in the same call of cast; and
\* the view of a chunk of another page holds none of its keys, other than
\* those that page declares itself.
C6_DeclarationScopedToPage ==
    \A p \in Pages :
        /\ \A k \in DOMAIN chunks[p] :
              chunks[p][k].cls = "YAMLDataChunk" =>
                 /\ ~Rendered(p, chunks[p][k])
                 /\ \A j \in (k + 1)..Len(chunks[p]) :
                       KeysOf(raws[p][chunks[p][k].id].dict)
                          \subseteq KeysOf(View(chunks[p][j]))
        /\ \A i \in 1..(idx[p] - 1) :
              IsDeclaration(raws[p][i]) =>
                 /\ \E k \in DOMAIN chunks[p] :
                       chunks[p][k].id = i /\ chunks[p][k].cls = "YAMLDataChunk"
                 /\ \A q \in Pages \ {p} : \A j \in DOMAIN chunks[q] :
                       KeysOf(View(chunks[q][j])) \cap KeysOf(raws[p][i].dict)
                          \subseteq DeclaredIn(q, DOMAIN raws[q])

C6_Witness ==
    \E p, q \in Pages :
        /\ p # q
        /\ pc[p] = "done" /\ pc[q] = "done"
        /\ Len(chunks[p]) = 2 /\ Len(chunks[q]) = 2
        /\ chunks[p][1].cls = "YAMLDataChunk"
        /\ chunks[p][2].cls = "MarkdownChunk"
        /\ chunks[q][2].cls = "YAMLDataChunk"
        /\ KeysOf(page_variables[p]) = {"status"}
        /\ KeysOf(page_variables[q]) = {"title"}
        /\ content[p] # << >> /\ content[q] # << >>

\* C7 as stated: with abort_draft, rendering the page [prose, {status:
\* draft}, prose] emits the first prose chunk, then the draft marker, and
\* never the last prose chunk.
HelloDraftWorld ==
    << Prose(None), Yaml("dict", Dict(Absent, "draft", Absent)), Prose(None) >>

C7_DraftCutsAfterHello ==
    \A p \in Pages :
        (raws[p] = HelloDraftWorld /\ abort_draft /\ pc[p] = "done") =>
            content[p] = << Html("chunk", 1), Html("draft", 0) >>

\* C8 as stated: cast never raises; a YAML chunk whose load fails or gives
\* no mapping gets a diagnostic and no chunk, and once cast has returned
\* every other raw chunk that can be cast has its chunk.
BadYaml(raw) == raw.type = "YAML" /\ raw.load # "dict"

Castable(raw) ==
    \/ raw.type \in {"MARKDOWN", "HTML", "CODE"}
    \/ IsDeclaration(raw)
    \/ /\ raw.type = "YAML" /\ raw.load = "dict"
       /\ raw.dict["type"] \in DOMAIN yamlExtensions

C8_CastNeverAborts ==
    \A p \in Pages :
        /\ pc[p] # "raised"
        /\ \A i \in 1..(idx[p] - 1) :
              BadYaml(raws[p][i]) =>
                 /\ i \notin Ids(chunks[p])
                 /\ DiagsAt(p, i) # {}
        /\ pc[p] \notin {"cast", "none", "submitted"} =>
              \A i \in DOMAIN raws[p] : Castable(raws[p][i]) => i \in Ids(chunks[p])

\* ------------------------------------------------------------ dispatch
ChunksOf(p, i) == { k \in DOMAIN chunks[p] : chunks[p][k].id = i }

\* The loop of cast is about to cast raw chunk idx[p] of page p, and does.
Casts(p) ==
    /\ pc[p] = "cast"
    /\ idx[p] <= Len(raws[p])
    /\ idx'[p] = idx[p] + 1

UnknownTag(raw) ==
    /\ raw.type = "MARKDOWN"
    /\ raw.tag \notin {None, "aside"}
    /\ raw.tag \notin DOMAIN ParagraphTable

C9_OneBuiltinChunkOneDiagnostic ==
    \A p \in Pages : \A i \in 1..(idx[p] - 1) :
        UnknownTag(raws[p][i]) =>
            /\ Cardinality(ChunksOf(p, i)) = 1
            /\ \A k \in ChunksOf(p, i) :
                  /\ chunks[p][k].cls = "MarkdownChunk"
                  /\ chunks[p][k] =
                        _cast_chunk([raws[p][i] EXCEPT !.tag = None], i, p,
                                    yamlExtensions, page_variables[p]).chunk
            /\ Cardinality(DiagsAt(p, i)) = 1
            /\ \A d \in DiagsAt(p, i) : report[p][d].tag = raws[p][i].tag

C9_UsedSetUntouched ==
    \A p \in Pages :
        (Casts(p) /\ UnknownTag(raws[p][idx[p]])) =>
            used_extensions'[p] = used_extensions[p]

\* C9: a prose chunk with a tag that is not registered (and is not "aside")
\* gives exactly one chunk, the MarkdownChunk the same raw chunk gives
\* without its tag; casting it adds nothing to used_extensions; and exactly
\* one diagnostic is told for it, which names the tag.
C9_UnknownTagFallsBack ==
    /\ []C9_OneBuiltinChunkOneDiagnostic
    /\ [][C9_UsedSetUntouched]_vars

C9_Witness ==
    \E p \in Pages :
        /\ pc[p] = "done"
        /\ Len(raws[p]) = 3
        /\ raws[p][1].tag = "hint"
        /\ UnknownTag(raws[p][2])
        /\ raws[p][3] = Prose(None)
        /\ used_extensions[p] = {"HintExt"}
        /\ Len(chunks[p]) = 3

Typed(raw) == raw.type = "YAML" /\ raw.load = "dict" /\ raw.dict["type"] # Absent

C10_TypedDispatch ==
    \A p \in Pages : \A i \in 1..(idx[p] - 1) :
        Typed(raws[p][i]) =>
            LET t == raws[p][i].dict["type"]
            IN  IF t \in DOMAIN yamlExtensions
                THEN /\ Cardinality(ChunksOf(p, i)) = 1
                     /\ \A k \in ChunksOf(p, i) :
                           /\ chunks[p][k].ext = yamlExtensions[t]
                           /\ chunks[p][k].cls = chunk_class(yamlExtensions[t])
                ELSE /\ ChunksOf(p, i) = {}
                     /\ \E d \in DiagsAt(p, i) : report[p][d].level = "ERROR"

C10_PageVariablesUntouched ==
    \A p \in Pages :
        (Casts(p) /\ Typed(raws[p][idx[p]])) =>
            page_variables'[p] = page_variables[p]

\* C10: a YAML chunk whose mapping has a `type` key t gives exactly one
\* chunk, built by and tagged with the extension registered for t, when t
\* is registered, and no chunk and an ERROR diagnostic when it is not; in
\* both cases casting it leaves the page variables as they were.
C10_TypedYamlDispatch ==
    /\ []C10_TypedDispatch
    /\ [][C10_PageVariablesUntouched]_vars

C10_Witness ==
    \E p \in Pages :
        /\ pc[p] = "done"
        /\ Len(raws[p]) = 3
        /\ IsDeclaration(raws[p][1])
        /\ Typed(raws[p][2]) /\ raws[p][2].dict["type"] \in DOMAIN yamlExtensions
        /\ Typed(raws[p][3]) /\ raws[p][3].dict["type"] \notin DOMAIN yamlExtensions
        /\ yamlExtensions["figure"] = "GalleryExt"
        /\ Len(chunks[p]) = 2
        /\ KeysOf(page_variables[p]) = {"status"}

\* The groups of a list of chunks as a reader tells them apart: the chunks
\* in their order, and for a group its members in their order.  How often
\* finish was called on a group is left out.
Unsealed(chunk) == IF is_group(chunk) THEN [chunk EXCEPT !.finished = 0] ELSE chunk
Layout(cs) == [k \in 1..Len(cs) |-> Unsealed(cs[k])]
GroupsOf(cs) == { k \in 1..Len(cs) : is_group(cs[k]) }
MemberIds(group) == [m \in 1..Len(group.members) |-> group.members[m].id]
Standalone(chunk) == ~is_groupable(chunk) /\ ~is_group(chunk)

\* C11: grouping is idempotent: group_chunks applied to what group_chunks
\* returned gives the same sequence of top-level chunks, with the same groups
\* holding the same members in the same order, whatever mix of groupable
\* chunks, other chunks and group chunks the first call was given.
C11_GroupingIdempotent ==
    group_pc = "returned" => Layout(group_chunks(group_out)) = Layout(group_out)

\* A first pass that built a group of two, left a rejected groupable chunk
\* on its own and took a group chunk over; the second pass went through them.
C11_Witness ==
    /\ group_pc = "returned"
    /\ \E k \in GroupsOf(group_out) : Len(group_out[k].members) = 2
    /\ \E k \in 1..Len(group_out) : is_groupable(group_out[k])
    /\ \E k \in GroupsOf(group_out) : group_in[group_out[k].id].cls = "Group"
    /\ \A k \in GroupsOf(group_out) : group_chunks(group_out)[k].finished = 2

\* C12: with no group open, a run of k >= 1 adjacent groupable chunks of
\* one class followed by a chunk that is neither groupable nor a group gives
\* one sealed group holding exactly the k chunks in their order, with the
\* following chunk right after it, standalone.
C12_RunThenStandalone ==
    group_pc = "returned" =>
        \A i \in no_group_at : \A n \in i + 1..Len(group_in) :
            ( /\ \A m \in i..n - 1 : /\ is_groupable(group_in[m])
                                     /\ group_in[m].cls = group_in[i].cls
              /\ Standalone(group_in[n]) )
            => \E j \in 1..Len(group_out) - 1 :
                  /\ is_group(group_out[j])
                  /\ group_out[j].finished = 1
                  /\ MemberIds(group_out[j]) = [m \in 1..n - i |-> i + m - 1]
                  /\ group_out[j + 1] = group_in[n]
                  /\ \A j2 \in GroupsOf(group_out) \ {j} :
                        \A m \in 1..Len(group_out[j2].members) :
                            group_out[j2].members[m].id \notin i..n - 1

\* Three figures and a paragraph give a group of three and the paragraph.
C12_Witness ==
    /\ group_pc = "returned"
    /\ Len(group_in) = 4
    /\ \A m \in 1..3 : group_in[m].cls = "Figure"
    /\ group_in[4].cls = "MarkdownChunk"
    /\ Len(group_out) = 2
    /\ MemberIds(group_out[1]) = << 1, 2, 3 >>
    /\ group_out[2] = group_in[4]

\* C13: in parse_lines (arrange_assides, then group_chunks) an aside between
\* two groupable chunks of one class does not break their group: the two
\* chunks are members of the same group, one right after the other, and the
\* aside is in the aside list of the first.
C13_AsideBetweenFiguresKeepsGroup ==
    \A p \in Pages : AfterGroup(p) =>
        \A k \in 1..Len(chunks[p]) - 2 :
            ( /\ is_groupable(chunks[p][k]) /\ is_groupable(chunks[p][k + 2])
              /\ chunks[p][k].cls = chunks[p][k + 2].cls
              /\ is_aside(chunks[p][k + 1]) )
            => /\ \E j \in GroupsOf(new_chunks[p]) :
                      \E m \in 1..Len(new_chunks[p][j].members) - 1 :
                          /\ new_chunks[p][j].members[m] = chunks[p][k]
                          /\ new_chunks[p][j].members[m + 1] = chunks[p][k + 2]
               /\ chunks[p][k + 1] \in Range(asides[p][chunks[p][k].id])
               /\ chunks[p][k + 1] \notin Range(new_chunks[p])

\* A page of a figure, an aside and a figure came out as one group of two.
C13_Witness ==
    \E p \in Pages :
        /\ AfterGroup(p)
        /\ Len(chunks[p]) = 3
        /\ is_groupable(chunks[p][1]) /\ is_aside(chunks[p][2])
        /\ is_groupable(chunks[p][3])
        /\ Len(new_chunks[p]) = 1
        /\ Len(new_chunks[p][1].members) = 2
        /\ asides[p][1] = << chunks[p][2] >>

\* C14: in one call of group_chunks every group of the output had finish
\* called on it exactly once, after its last add_chunk and before it was
\* appended: a group is unfinished as long as it is open, finished once when
\* it is in the output, what is in the output never changes again, and an
\* open group changes only by the chunk of the iteration being appended to
\* its members.
GroupsSealedOnce ==
    group_pc # "idle" =>
        /\ \A k \in GroupsOf(group_out) : group_out[k].finished = 1
        /\ current_group # NoChunk => current_group.finished = 0

SealedForGood ==
    group_pc = "loop" =>
        /\ Len(group_out') >= Len(group_out)
        /\ SubSeq(group_out', 1, Len(group_out)) = group_out
        /\ ( /\ current_group # NoChunk /\ current_group' # NoChunk
              /\ current_group'.id = current_group.id )
           => /\ group_out' = group_out
              /\ current_group' = add_chunk(current_group, group_in[group_idx])

C14_FinishOnceAfterLastAdd == [] GroupsSealedOnce /\ [][SealedForGood]_vars

\* A call returned two groups, one of them with two members.
C14_Witness ==
    /\ group_pc = "returned"
    /\ Cardinality(GroupsOf(group_out)) = 2
    /\ \E k \in GroupsOf(group_out) : Len(group_out[k].members) = 2
    /\ \A k \in GroupsOf(group_out) : group_out[k].finished = 1

\* The extension point an extension is registered at, and the discriminators
\* it declares there: its primary type or tag and its aliases.
PointOf(extension) ==
    IF extension \in YamlExtensionNames THEN "yaml"
    ELSE IF extension \in ParagraphExtensionNames THEN "paragraph"
         ELSE IF extension \in TableClassExtensionNames THEN "tableclass"
              ELSE None
Declares(extension) ==
    CASE extension = "FigureExt" -> {"figure"}
      [] extension = "GalleryExt" -> {"figure", "image"}
      [] extension = "HintExt" -> {"hint"}
      [] extension = "NoteExt" -> {"note", "hint"}
      [] extension \in TableClassExtensionNames -> {"striped"}
      [] OTHER -> {}
Discriminators == UNION { Declares(e) : e \in Extensions }
Max(S) == CHOOSE x \in S : \A y \in S : y <= x

\* The registrations, so far, that declared discriminator d at a point.
DeclaredAt(point, d) ==
    { k \in 1..Len(registrations) :
        PointOf(registrations[k]) = point /\ d \in Declares(registrations[k]) }

LastRegistrationWins ==
    \A point \in {"yaml", "paragraph", "tableclass"} : \A d \in Discriminators :
        IF DeclaredAt(point, d) = {}
        THEN d \notin DOMAIN extension_points[point]
        ELSE /\ d \in DOMAIN extension_points[point]
             /\ extension_points[point][d] = registrations[Max(DeclaredAt(point, d))]

Registering(extension) ==
    /\ Len(registrations') = Len(registrations) + 1
    /\ registrations'[Len(registrations')] = extension

\* C15 as stated: a lookup returns the extension of the last registration
\* that declared the discriminator, and registering an extension that was
\* registered before leaves the tables unchanged.
C15_ReRegisteringChangesNothing ==
    /\ [] LastRegistrationWins
    /\ [][ \A e \in Extensions :
              (Registering(e) /\ \E k \in 1..Len(registrations) : registrations[k] = e)
              => extension_points' = extension_points ]_vars

\* C15, amended: a lookup returns the extension of the last registration
\* that declared the discriminator (a discriminator no later registration
\* declared keeps its extension), and registering an extension that holds
\* all the discriminators it declares leaves the tables unchanged.
C15_LastRegistrationWins ==
    /\ [] LastRegistrationWins
    /\ [][ \A e \in Extensions :
              ( /\ Registering(e)
                /\ \E k \in 1..Len(registrations) : registrations[k] = e
                /\ \A d \in Declares(e) :
                      extension_points[PointOf(e)][d] = e )
              => extension_points' = extension_points ]_vars

\* GalleryExt was registered, FigureExt took "figure" from it, and
\* GalleryExt, registered again, has it back; "image" stayed with GalleryExt
\* all along.
C15_Witness ==
    /\ registrations = << "GalleryExt", "FigureExt", "GalleryExt" >>
    /\ extension_points.yaml["figure"] = "GalleryExt"
    /\ extension_points.yaml["image"] = "GalleryExt"

\* C16 as stated: when _load_extensions has ended, every module that failed
\* to load, for whatever reason, was reported and passed over, every other
\* module was loaded, and every class of it whose construction did not fail
\* was registered.
C16_FailedModuleSkipped ==
    load_pc \in {"done", "raised"} =>
        \A at \in 1..Len(modules) :
            IF modules[at].load # "ok"
            THEN \E k \in 1..Len(load_report) :
                     load_report[k] = Told("ERROR", at, 0)
            ELSE \A c \in 1..Len(modules[at].clsmembers) :
                     ~modules[at].clsmembers[c].raises
                     => /\ \E k \in 1..Len(load_report) :
                               load_report[k] = Told("INFO", at, c)
                        /\ \E k \in 1..Len(registrations) :
                               registrations[k] = modules[at].clsmembers[c].extension

\* C17 as stated: when all the workers have finished, the entry of every
\* reference holds every chunk that a worker recorded under it, whatever
\* the order in which the steps of the workers ran.
C17_NoObservationLost ==
    (\A w \in Pages : link_pc[w] = "done") =>
        \A w \in Pages : \A n \in 1..Len(link_done[w]) :
            /\ urls[link_done[w][n]] # 0
            /\ LinkChunk(w) \in sets[urls[link_done[w][n]]]

\* C18 as stated: check probes every collected reference exactly once; a
\* reference is a warning on every chunk that holds it exactly when its
\* probe was unreachable or answered with a status outside 200..299; a 2xx
\* answer and a reference without a scheme give no warning; and check
\* returns.
Unreachable(outcome) == outcome.raises \notin {None, "MissingSchema"}
Non2xx(outcome) == outcome.raises = None /\ outcome.status_code \notin 200..299

C18_WarningIffUnreachableOrNon2xx ==
    /\ check_pc # "raised"
    /\ \A u \in Urls : probes[u] <= 1
    /\ check_pc = "returned" =>
          \A u \in Urls : urls[u] # 0 =>
              /\ probes[u] = 1
              /\ \A chunk \in sets[urls[u]] :
                    << chunk, u >> \in warnings
                        <=> (Unreachable(probe[u]) \/ Non2xx(probe[u]))

\* The raw chunks of page p hold one that makes cast raise.
Fails(p) == \E k \in 1..Len(raws[p]) : raws[p][k].load = "ParserError"

\* C19: in build with several jobs an exception in the task of one page
\* does not abort the others: when build is over, every other task has run
\* to its end and its page, unless it is empty, was written, in whatever
\* order the tasks ran and finished.
C19_SiblingsRunToCompletion ==
    build_pc \in {"returned", "raised"} =>
        \A p \in Pages :
            IF Fails(p)
            THEN pc[p] = "raised"
            ELSE /\ pc[p] = "done"
                 /\ raws[p] # << >> => written[p] /\ content[p] # << >>

\* The task of page 1 raised, build raised, and page 2 was written.
C19_Witness ==
    /\ build_pc = "raised"
    /\ pc[1] = "raised"
    /\ pc[2] = "done"
    /\ written[2]

\* The extensions that produced the chunks of page p.
Producers(p) == { chunks[p][k].ext : k \in 1..Len(chunks[p]) } \ {None}

\* C20: the set of used extensions of a page holds every extension that
\* produced a chunk in its cast, nothing is ever removed from it, and an
\* extension that produced no chunk of the page is not in it: not one that
\* is registered and was never looked up, and not one that only another
\* page used.
C20_UsedExtensionsPerPage ==
    /\ [] (\A p \in Pages : used_extensions[p] = Producers(p))
    /\ [][ \A p \in Pages : used_extensions[p] \subseteq used_extensions'[p] ]_vars

\* Page 1 was cast with HintExt and page 2, cast as well, without it.
C20_Witness ==
    /\ pc[1] = "done" /\ pc[2] = "done"
    /\ used_extensions[1] = {"HintExt"}
    /\ Len(chunks[2]) = 0
    /\ used_extensions[2] = {}

\* ---------------------------------------------------------------- C21
\* The folders of the used extensions.
UsedFolders == { e.folder : e \in asset_used }

\* How often a folder's fragment comes in an aggregate.
Times(fragments, folder) ==
    Cardinality({ k \in 1..Len(fragments) : fragments[k] = folder })

\* C21: get_css and get_js include the fragment of each distinct folder among
\* the used extensions exactly once, and nothing else: two used extensions of
\* one folder contribute one fragment, two of different folders one each (a
\* folder with an empty stylesheet has no css fragment to include).
C21_OneFragmentPerFolder ==
    /\ "get_css" \in asset_pc =>
           /\ \A e \in asset_used :
                  Times(all_css, e.folder) = IF e.css # "" THEN 1 ELSE 0
           /\ Range(all_css) \subseteq UsedFolders
    /\ "get_js" \in asset_pc =>
           /\ \A f \in UsedFolders : Times(all_js, f) = 1
           /\ Range(all_js) \subseteq UsedFolders

\* Both have returned for three used extensions, two of one folder and one of
\* another, all with css.
C21_Witness ==
    /\ asset_pc = { "get_css", "get_js" }
    /\ Cardinality(asset_used) = 3
    /\ Cardinality(UsedFolders) = 2
    /\ \A e \in asset_used : e.css # ""
    /\ Len(all_css) = 2
    /\ Len(all_js) = 2

\* ---------------------------------------------------------------- C26
\* C26: a call of Core.register with an extension of none of the three
\* families completes (the call is recorded as returned) and leaves the three
\* tables as they were, with nothing raised and nothing reported.
C26_UnknownFamilyIgnored ==
    [][ \A e \in Extensions :
            (Registering(e) /\ PointOf(e) = None)
            => /\ extension_points' = extension_points
               /\ load_report' = load_report ]_vars

\* An extension of no family was registered after one of each of two
\* families: the tables hold those two and nothing else.
C26_Witness ==
    /\ registrations = << "FigureExt", "HintExt", "OtherExt" >>
    /\ extension_points.yaml = SetItem(NoTable, "figure", "FigureExt")
    /\ extension_points.paragraph = SetItem(NoTable, "hint", "HintExt")
    /\ extension_points.tableclass = NoTable

\* ---------------------------------------------------------------- C23
\* The input positions whose chunks are members of the group chunk.
MembersAt(group) == { group.members[m].id : m \in 1..Len(group.members) }

\* C23 as stated: two adjacent input chunks that are both groupable and of
\* the same kind are members of the same group when group_chunks has
\* returned, whatever comes before them, also when the first of the two was
\* rejected by an open group of another kind.
C23_AdjacentSameKindShareGroup ==
    group_pc = "returned" =>
        \A i \in 1..Len(group_in) - 1 :
            ( /\ is_groupable(group_in[i])
              /\ is_groupable(group_in[i + 1])
              /\ group_in[i].cls = group_in[i + 1].cls )
            => \E j \in GroupsOf(group_out) :
                   { i, i + 1 } \subseteq MembersAt(group_out[j])

\* ---------------------------------------------------------------- C24
\* A chunk as the flattening tells it: its input position and its class.
Node(chunk) == << chunk.id, chunk.cls >>
Nodes(cs) == [k \in 1..Len(cs) |-> Node(cs[k])]

\* A group of the output was created in the pass (by get_group, with the id
\* of its first member) when the input has no group at its position.
CreatedInPass(group) == is_group(group) /\ ~is_group(group_in[group.id])
AdoptedInPass(group) == is_group(group) /\ is_group(group_in[group.id])

\* The flattening as stated: a group created in the pass is replaced by its
\* members, every other chunk stays.
RECURSIVE FlattenCreated(_)
FlattenCreated(cs) ==
    IF cs = << >> THEN << >>
    ELSE (IF CreatedInPass(Head(cs)) THEN Nodes(Head(cs).members)
          ELSE << Node(Head(cs)) >>) \o FlattenCreated(Tail(cs))

\* The flattening that also unfolds a group taken from the input: the group
\* stays and the members it was given in the pass follow it.
RECURSIVE FlattenAll(_)
FlattenAll(cs) ==
    IF cs = << >> THEN << >>
    ELSE (IF CreatedInPass(Head(cs)) THEN Nodes(Head(cs).members)
          ELSE IF AdoptedInPass(Head(cs))
               THEN << Node(Head(cs)) >> \o Nodes(Head(cs).members)
               ELSE << Node(Head(cs)) >>) \o FlattenAll(Tail(cs))

\* Where the input chunk at position i is in the output: as a top-level
\* element, and as a member of a group.
TopLevelAt(i) ==
    { j \in 1..Len(group_out) :
        group_out[j].id = i /\ ~CreatedInPass(group_out[j]) }
MemberAt(i) ==
    { << j, m >> \in (1..Len(group_out)) \X (1..MaxGroupIn + 1) :
        /\ is_group(group_out[j])
        /\ m <= Len(group_out[j].members)
        /\ group_out[j].members[m].id = i }

EitherTopLevelOrMember ==
    \A i \in 1..Len(group_in) :
        Cardinality(TopLevelAt(i)) + Cardinality(MemberAt(i)) = 1

\* C24 as stated: when group_chunks has returned, its output with each group
\* created in the pass replaced by its members is the input sequence, and
\* every input chunk is either a top-level element of the output or a member
\* of exactly one group, never both.
C24_FlattenCreatedGivesInput ==
    group_pc = "returned" =>
        /\ FlattenCreated(group_out) = Nodes(group_in)
        /\ EitherTopLevelOrMember

\* C24, amended: when group_chunks has returned, its output with each group
\* created in the pass replaced by its members, and each group taken from the
\* input followed by the members it was given in the pass, is the input
\* sequence, and every input chunk is either a top-level element of the
\* output or a member of exactly one group, never both.
C24_FlattenGivesInput ==
    group_pc = "returned" =>
        /\ FlattenAll(group_out) = Nodes(group_in)
        /\ EitherTopLevelOrMember

\* A pass over a group chunk, a figure it took in, a gallery that was left on
\* its own and a gallery a group was created for.
C24_Witness ==
    /\ group_pc = "returned"
    /\ Nodes(group_in) = << << 1, "Group" >>, << 2, "Figure" >>,
                            << 3, "Gallery" >>, << 4, "Gallery" >> >>
    /\ Len(group_out) = 3
    /\ AdoptedInPass(group_out[1])
    /\ MemberIds(group_out[1]) = << 2 >>
    /\ group_out[2] = group_in[3]
    /\ CreatedInPass(group_out[3])
    /\ MemberIds(group_out[3]) = << 4 >>

\* ---------------------------------------------------------------- C22
\* The html of page p has the html of the chunk at position j, directly
\* preceded by the html of the asides the chunk owns, in their order.
AsidesThenOwnerAt(p, chunk, j) ==
    LET owned == asides[p][chunk.id]
    IN  /\ j \in DOMAIN content[p]
        /\ j > Len(owned)
        /\ content[p][j] = Html("chunk", chunk.id)
        /\ \A m \in 1..Len(owned) :
               content[p][j - Len(owned) + m - 1] = Html("aside", owned[m].id)

\* C22 as stated: when a page is rendered (and not cut at the draft marker),
\* every aside owned by a chunk of the final top-level sequence is rendered
\* directly before its owner, with no other chunk's html in between,
\* whatever kind of chunk the owner is.
C22_AsidesRenderedNextToOwner ==
    \A p \in Pages :
        (pc[p] = "done" /\ ~(abort_draft /\ IsDraft(page_variables[p]))) =>
            \A k \in DOMAIN new_chunks[p] :
                (~is_group(new_chunks[p][k])
                     /\ asides[p][new_chunks[p][k].id] # << >>)
                => \E j \in DOMAIN content[p] :
                       AsidesThenOwnerAt(p, new_chunks[p][k], j)

\* ---------------------------------------------------------------- C25
\* cast has ended for page p, by returning or by an exception.
CastEnded(p) == pc[p] \in {"raised", "arrange", "group", "parsed", "done"}

\* The ERROR diagnostics cast itself told with the position of raw chunk i.
CastErrorsAt(p, i) ==
    { d \in DiagsAt(p, i) :
        report[p][d].level = "ERROR" /\ report[p][d].by = "cast" }

\* The classes a chunk cast from the raw chunk may have.
ClassesFor(raw) ==
    CASE raw.type = "MARKDOWN" ->
           { "MarkdownChunk" } \cup { chunk_class(ParagraphTable[t]) : t \in DOMAIN ParagraphTable }
      [] raw.type = "HTML" -> { "HTMLChunk" }
      [] raw.type = "CODE" -> { "Code" }
      [] raw.type = "YAML" ->
           { "YAMLDataChunk" } \cup { chunk_class(e) : e \in YamlExtensionNames }
      [] OTHER -> {}

\* C25 as stated: when cast has ended, the chunks it produced are in the
\* order of their raw chunks, at most one per raw chunk; every raw chunk
\* that can be cast (prose, raw markup and code always, structured data by
\* its rules) has its chunk, of a class of its kind; and every raw chunk
\* without a chunk, one of an unrecognized kind included, has exactly one
\* ERROR diagnostic told by cast with its position.
C25_OneNodeOrOneError ==
    \A p \in Pages : CastEnded(p) =>
        /\ \A j, k \in DOMAIN chunks[p] : j < k => chunks[p][j].id < chunks[p][k].id
        /\ \A i \in DOMAIN raws[p] :
              /\ Cardinality(ChunksOf(p, i)) <= 1
              /\ Castable(raws[p][i]) <=> ChunksOf(p, i) # {}
              /\ \A k \in ChunksOf(p, i) : chunks[p][k].cls \in ClassesFor(raws[p][i])
              /\ Cardinality(CastErrorsAt(p, i)) = IF ChunksOf(p, i) = {} THEN 1 ELSE 0

\* ---------------------------------------------------------------- C27
\* _process_file ends for page p, whose parse_file returned no chunks.
EndsEmpty(p) ==
    /\ pc[p] = "parsed"
    /\ new_chunks[p] = << >>
    /\ pc'[p] # "parsed"

C27_NothingRenderedOrWritten ==
    \A p \in Pages :
        (pc[p] = "done" /\ new_chunks[p] = << >>) =>
            /\ content[p] = << >>
            /\ ~written[p]

C27_NothingDone ==
    \A p \in Pages :
        EndsEmpty(p) =>
            /\ pc'[p] = "done"
            /\ content'[p] = content[p]
            /\ written'[p] = written[p]
            /\ report'[p] = report[p]

\* C27: a page for which cast, arrange_assides and group_chunks leave no
\* chunks is a no-op of _process_file: nothing is rendered for it, its
\* target file is not written, and _process_file tells the report nothing
\* (what cast told about the page's raw chunks stays as it is).
C27_EmptyPageIsNoOp ==
    /\ []C27_NothingRenderedOrWritten
    /\ [][C27_NothingDone]_vars

\* A page of two raw chunks that both give no chunk, done and not written,
\* with the two ERROR diagnostics of cast and nothing after them.
C27_Witness ==
    \E p \in Pages :
        /\ pc[p] = "done"
        /\ Len(raws[p]) = 2
        /\ new_chunks[p] = << >>
        /\ content[p] = << >>
        /\ ~written[p]
        /\ Cardinality(CastErrorsAt(p, 1)) = 1
        /\ Cardinality(CastErrorsAt(p, 2)) = 1
====
